---- MODULE Spec2Model ----
(***************************************************************************)
(* pyROSe scheduling core: Scheduler (src/architecture/scheduler.py) and   *)
(* the Topic / Subscriber / Message / Command family                       *)
(* (src/architecture/architecture_relationships.py).                       *)
(*                                                                         *)
(* Python objects are records whose fields are the attributes their        *)
(* constructors set; reading an attribute an object does not have raises   *)
(* AttributeError.  An operation is an operator from a world record to a   *)
(* world record; an exception is the field raised, and every later         *)
(* statement of the operation is skipped once it is set.                   *)
(***************************************************************************)
EXTENDS Integers, Sequences, FiniteSets, TLC

\* ------------------------------------------------------------- bounds
\* Scheduler.periodic() calls in one run of the program.
MaxTicks == 2
\* Scheduler.initialize() calls in one run of the program.
MaxInits == 1
\* The longest delay a DelayCommand is constructed with.
MaxDelay == 2
\* The clock value up to which a directly driven DelayCommand is followed.
MaxTime == 4
\* setNextOption calls on the DynamicCommand.
MaxOptions == 2
\* setNext calls made directly by the program that drives a chain.
MaxCalls == 3

\* ------------------------------------------------------- Python values
None == "None"
NoError == "none"

Range(s) == {s[i] : i \in DOMAIN s}

\* A dict: a function on the finite set of its keys.
EmptyDict == [x \in {} |-> 0]

\* d[k] = v of a dict.
Put(d, k, v) == [x \in DOMAIN d \cup {k} |-> IF x = k THEN v ELSE d[x]]

\* A value with its Python type, for the type checks of the constructors.
Dict(f) == [type |-> "dict", val |-> f]

\* ----------------------------------------------------------- the objects
\* The Topic objects of the program: the scheduler's SystemTimeTopic, a sensor
\* Topic read from hardware, and a Topic computed from the sensor Topic.
TopicIds == {"SystemTime", "imu", "odom"}

\* The Subscriber objects that are no Topics.
SubscriberIds == {"drive"}

\* The names the program may construct its objects with: the SystemTimeTopic
\* and the sensor Topic under their own names, the computed Topic and the
\* Subscriber under any name.
Namings ==
  {n \in [TopicIds \cup SubscriberIds -> TopicIds \cup SubscriberIds] :
     n["SystemTime"] = "SystemTime" /\ n["imu"] = "imu"}

\* Subscriber-registration wiring done while the objects are constructed:
\* Topic.subscribers of each Topic.
Wiring(t) ==
  CASE t = "SystemTime" -> <<"drive">>
    [] t = "imu" -> <<"odom", "drive">>
    [] t = "odom" -> <<"drive">>

\* The declared dependency graphs the program may be configured with:
\* DepGraphs[g][t] is the set of Topics t depends on.
DepGraphs ==
  [ tree |-> [t \in TopicIds |-> IF t = "odom" THEN {"imu"} ELSE {}],
    chain |-> [t \in TopicIds |->
                 CASE t = "odom" -> {"imu"}
                   [] t = "imu" -> {"SystemTime"}
                   [] OTHER -> {}],
    cyclic |-> [t \in TopicIds |->
                 CASE t = "odom" -> {"imu"}
                   [] t = "imu" -> {"odom"}
                   [] OTHER -> {}] ]

VARIABLES
  sched,       \* the Scheduler object
  topic,       \* the Topic objects' own attributes
  subscriber,  \* the Subscriber attributes of every Subscriber and Topic
  command,     \* the Command objects
  files,       \* the log files on disk: name -> lines
  clock,       \* the last value time.time() returned
  env,         \* what the program does not decide: the dependency graph
               \* declared, the user commands' completion
  hist         \* history: the last operation, its exception and its events,
               \* and what has happened over the run

vars == <<sched, topic, subscriber, command, files, clock, env, hist>>

\* Topic.name / Subscriber.name of each object.
Name(o) == env.names[o]

\* ------------------------------------------------------ typed Python values
\* Attributes that hold None or a value of another type carry their type.
PyNone == [type |-> "NoneType", val |-> <<>>]

List(s) == [type |-> "list", val |-> s]

Str(s) == [type |-> "str", val |-> s]

\* -------------------------------------------------------------- the world
\* The state an operation runs on: the variables, the position k of the next
\* time.time() read of the operation, the reads `jumps` at which the clock
\* is seen to have moved, the value `ret` the last call returned, the
\* exception `raised` and the events `trace` of the operation so far.
World(jumps) ==
  [ sched |-> sched, topic |-> topic, subscriber |-> subscriber,
    command |-> command, files |-> files, clock |-> clock,
    k |-> 1, jumps |-> jumps, ret |-> PyNone, raised |-> NoError,
    trace |-> <<>> ]

\* Body(x) with x the value of E, computed once.
Let(E, Body(_)) == CHOOSE r \in {Body(x) : x \in {E}} : TRUE

Ok(w) == w.raised = NoError

\* The statement Stmt run in the world E leaves: skipped when an exception is
\* propagating.
Then(E, Stmt(_)) == CHOOSE r \in {IF Ok(x) THEN Stmt(x) ELSE x : x \in {E}} : TRUE

Raise(w, e) == [w EXCEPT !.raised = e]

Return(w, v) == [w EXCEPT !.ret = v]

Event(w, e) == [w EXCEPT !.trace = Append(@, e)]

\* The reads of one operation at which the clock may be seen to have moved: a
\* tick reads the clock once itself and at most four times for each Topic.
\* Either the clock is too coarse for any two reads of an operation to differ,
\* or fine enough for each read to differ from the one before.
MaxReads == 1 + 4 * Cardinality(TopicIds)

JumpSets == {{}, 1 .. MaxReads}

\* time.time(): the value read is the clock of the world returned.
ReadClock(w) ==
  [w EXCEPT !.clock = @ + (IF w.k \in w.jumps THEN 1 ELSE 0), !.k = @ + 1]

\* ---------------------------------------------------------------- Message
\* Message(message): a dict and the time of its construction.
Message(w, message) ==
  IF message.type # "dict"
  THEN Raise(w, "TypeError")
  ELSE Let(ReadClock(w), LAMBDA w1 :
         Return(w1, [message |-> message.val, time_stamp |-> w1.clock]))

\* ------------------------------------------------------------- Subscriber
\* Subscriber.__init__
SubscriberInit(is_sim, subscriber_name) ==
  [messages |-> EmptyDict, is_sim |-> is_sim, name |-> subscriber_name]

\* Subscriber.store_messages
StoreMessages(w, o, topic_name, message) ==
  [w EXCEPT !.subscriber[o].messages = Put(@, topic_name, message)]

\* Subscriber.periodic, with the user's subscriber_periodic recording what the
\* Subscriber sees in its stored messages.  subscriber_periodic_sim is not
\* overridden, and Topic.subscriber_periodic is `pass`.
SubscriberPeriodic(w, o) ==
  Event(w, [ev |-> IF o \in TopicIds THEN "topic_periodic" ELSE "sub_periodic",
            who |-> o, seen |-> w.subscriber[o].messages])

\* ------------------------------------------------------------------ Topic
\* Topic.__init__ at clock value c; SystemTimeTopic.__init__ adds its own
\* attributes and sets replace_message_with_log.  p_current_time and
\* p_previous_time are the private __current_time and __previous_time.
TopicInit(t, c) ==
  IF t = "SystemTime"
  THEN [ subscribers |-> Wiring(t), message_body |-> EmptyDict,
         p_current_time |-> c, p_previous_time |-> c, delta_time_seconds |-> 0,
         replace_message_with_log |-> TRUE,
         message |-> [Unix |-> c, DeltaTimeSeconds |-> 0],
         previous_time |-> c, has_periodic_call_occurred |-> FALSE ]
  ELSE [ subscribers |-> Wiring(t), message_body |-> EmptyDict,
         p_current_time |-> c, p_previous_time |-> c, delta_time_seconds |-> 0,
         replace_message_with_log |-> (t = "imu") ]

\* SystemTimeTopic.generate_messages_periodic, lines 317-319.
SystemTimeFirstCall(w) ==
  IF w.topic["SystemTime"].has_periodic_call_occurred
  THEN w
  ELSE Let(ReadClock(w), LAMBDA r :
         [r EXCEPT !.topic["SystemTime"].has_periodic_call_occurred = TRUE,
                   !.topic["SystemTime"].previous_time = r.clock])

\* SystemTimeTopic.generate_messages_periodic
SystemTimeGenerate(w) ==
  Let(SystemTimeFirstCall(w), LAMBDA w1 :
    Let(ReadClock(w1), LAMBDA w2 :
      LET current_time == w2.clock
          msg == [Unix |-> current_time,
                  DeltaTimeSeconds |->
                    current_time - w1.topic["SystemTime"].previous_time]
      IN Return([w2 EXCEPT !.topic["SystemTime"].message = msg,
                           !.topic["SystemTime"].previous_time = current_time],
                Dict(msg))))

\* generate_messages_periodic of each Topic class: the SystemTimeTopic's, the
\* sensor Topic's (a hardware read, hw) and the computed Topic's (a function of
\* the sensor Message it holds); each records that it ran.
GenerateMessagesPeriodic(w, t, hw) ==
  Let(Event(w, [ev |-> "generate_messages_periodic", who |-> t, seen |-> EmptyDict]),
      LAMBDA w1 :
        CASE t = "SystemTime" -> SystemTimeGenerate(w1)
          [] t = "imu" -> Return(w1, Dict([v |-> hw]))
          [] t = "odom" ->
               LET m == w1.subscriber[t].messages
               IN Return(w1, Dict([x |-> IF "imu" \in DOMAIN m
                                         THEN m["imu"].message.v ELSE 0])))

\* Topic.notify_subscribers, from the i-th registered Subscriber on.
RECURSIVE NotifyFrom(_, _, _, _)
NotifyFrom(w, t, msg, i) ==
  IF i > Len(w.topic[t].subscribers)
  THEN w
  ELSE Let(StoreMessages(w, w.topic[t].subscribers[i], Name(t), msg), LAMBDA w1 :
         NotifyFrom(w1, t, msg, i + 1))

NotifySubscribers(w, t, msg) == NotifyFrom(w, t, msg, 1)

\* Topic.publish_periodic: returns (msg, current time, delta).
PublishPeriodic(w, t, hw) ==
  Let(ReadClock(w), LAMBDA w1 :
    LET current_time == w1.clock
        delta == current_time - w1.topic[t].p_previous_time
    IN Let(GenerateMessagesPeriodic(
             [w1 EXCEPT !.topic[t].p_current_time = current_time,
                        !.topic[t].delta_time_seconds = delta], t, hw), LAMBDA w3 :
         Let(Message([w3 EXCEPT !.topic[t].message_body = w3.ret.val,
                                !.topic[t].p_previous_time = current_time],
                     w3.ret), LAMBDA w5 :
           IF ~Ok(w5) THEN w5
           ELSE Return(NotifySubscribers(w5, t, w5.ret),
                       <<w5.ret, current_time, delta>>))))

\* Topic.publish_periodic_from_log that sets the Topic's times and returns
\* without notifying.
PublishPeriodicFromLogUnnotified(w, t, message_from_log, current_time, delta_time_seconds) ==
  Return([w EXCEPT !.topic[t].p_current_time = current_time,
                   !.topic[t].delta_time_seconds = delta_time_seconds,
                   !.topic[t].p_previous_time = current_time],
         <<message_from_log, current_time, delta_time_seconds>>)

\* Topic.publish_periodic_from_log
PublishPeriodicFromLog(w, t, message_from_log, current_time, delta_time_seconds) ==
  Return(NotifySubscribers(
           [w EXCEPT !.topic[t].p_current_time = current_time,
                     !.topic[t].delta_time_seconds = delta_time_seconds,
                     !.topic[t].p_previous_time = current_time],
           t, message_from_log),
         <<message_from_log, current_time, delta_time_seconds>>)

\* --------------------------------------------------------------- Commands
\* The Command objects: user commands (a Command subclass whose
\* first_run_behavior and periodic record that they ran and whose is_complete
\* is the user's), a DelayCommand on the SystemTimeTopic, a ParallelCommand
\* and a DynamicCommand.
UserCommands == {"A", "B", "C", "X", "X2", "Y", "S1", "S2"}

CommandIds == UserCommands \cup {"D", "P", "Dy"}

\* The boolean suppliers a DynamicCommand is given.
Predicates == {"p1", "p2"}

Kind(c) ==
  CASE c = "D" -> "DelayCommand"
    [] c = "P" -> "ParallelCommand"
    [] c = "Dy" -> "DynamicCommand"
    [] OTHER -> "Command"

\* Command.__init__
CommandInit(subscribers) ==
  [dependent_subscribers |-> subscribers, next_command |-> None,
   first_run_occurred |-> FALSE]

\* DynamicCommand.__init__
DynamicCommandInit(subscribers) ==
  [dependent_subscribers |-> subscribers, next_command |-> None,
   first_run_occurred |-> FALSE, conditions |-> <<>>,
   command_condition_pairs |-> EmptyDict]

\* ParallelCommand.__init__: Command.__init__ is not called.
ParallelCommandInit(commands, name) ==
  [commands |-> commands, name |-> name, first_run_occurred |-> FALSE]

\* DelayCommand.__init__
DelayCommandInit(delay_time_s, timer, name) ==
  [dependent_subscribers |-> <<timer>>, next_command |-> None,
   first_run_occurred |-> FALSE, start_time |-> PyNone,
   delay_time |-> delay_time_s, name |-> name, timer_subsystem |-> timer]

\* hasattr(c, a)
HasAttr(w, c, a) == a \in DOMAIN w.command[c]

CmdEvent(w, e, c) == Event(w, [ev |-> e, who |-> c, seen |-> EmptyDict])

\* Command.setNext, lines 129-131: the tail of the chain from `last` on.  The
\* walk does not return when the chain is a cycle.
RECURSIVE TailFrom(_, _, _)
TailFrom(w, last, fuel) ==
  IF ~HasAttr(w, last, "next_command") THEN "AttributeError"
  ELSE IF w.command[last].next_command = None THEN last
  ELSE IF fuel = 0 THEN "NonTermination"
  ELSE TailFrom(w, w.command[last].next_command, fuel - 1)

\* Command.setNext
SetNext(w, c, next_command) ==
  IF next_command \notin CommandIds THEN Raise(w, "TypeError")
  ELSE IF ~HasAttr(w, c, "next_command") THEN Raise(w, "AttributeError")
  ELSE IF w.command[c].next_command = None
  THEN [w EXCEPT !.command[c].next_command = next_command]
  ELSE Let(TailFrom(w, w.command[c].next_command, Cardinality(CommandIds)),
           LAMBDA last_command :
             IF last_command \notin CommandIds
             THEN Raise(w, last_command)
             ELSE [w EXCEPT !.command[last_command].next_command = next_command])

\* DynamicCommand.setNextOption
SetNextOption(w, c, nextCommand, boolean_supplier) ==
  [w EXCEPT !.command[c].conditions = Append(@, boolean_supplier),
            !.command[c].command_condition_pairs = Put(@, boolean_supplier, nextCommand)]

\* DynamicCommand.is_complete, from the i-th condition on; a condition called
\* is recorded.
RECURSIVE DynamicIsCompleteFrom(_, _, _)
DynamicIsCompleteFrom(w, c, i) ==
  IF i > Len(w.command[c].conditions)
  THEN Return(w, FALSE)
  ELSE LET condition == w.command[c].conditions[i]
       IN Let(CmdEvent(w, "condition", condition), LAMBDA w1 :
            IF env.pred[condition]
            THEN Then(SetNext(w1, c, w1.command[c].command_condition_pairs[condition]),
                      LAMBDA w2 : Return(w2, TRUE))
            ELSE DynamicIsCompleteFrom(w1, c, i + 1))

\* DelayCommand.first_run_behavior
DelayFirstRunBehavior(w, c) ==
  LET timer == w.command[c].timer_subsystem
  IN [w EXCEPT !.command[c].start_time =
                  [type |-> "float", val |-> w.topic[timer].message.Unix],
               !.command[c].first_run_occurred = TRUE]

\* DelayCommand.is_complete with a strict comparison.
DelayIsCompleteStrict(w, c) ==
  LET timer == w.command[c].timer_subsystem
      start_time == w.command[c].start_time
  IN IF start_time.type = "NoneType"
     THEN Raise(w, "TypeError")
     ELSE Return(w, w.topic[timer].message.Unix - start_time.val
                      > w.command[c].delay_time)

\* DelayCommand.is_complete
DelayIsComplete(w, c) ==
  LET timer == w.command[c].timer_subsystem
      start_time == w.command[c].start_time
  IN IF start_time.type = "NoneType"
     THEN Raise(w, "TypeError")
     ELSE Return(w, w.topic[timer].message.Unix - start_time.val
                      >= w.command[c].delay_time)

RECURSIVE FirstRun(_, _), IsComplete(_, _), CmdPeriodic(_, _)
RECURSIVE ParallelFirstRunFrom(_, _, _), ParallelIsCompleteFrom(_, _, _)
RECURSIVE ParallelPeriodicFrom(_, _, _)

\* ParallelCommand.first_run_behavior, from the i-th child on.
ParallelFirstRunFrom(w, c, i) ==
  IF i > Len(w.command[c].commands)
  THEN [w EXCEPT !.command[c].first_run_occurred = TRUE]
  ELSE Then(FirstRun(w, w.command[c].commands[i]), LAMBDA w1 :
         ParallelFirstRunFrom(w1, c, i + 1))

\* first_run_behavior of each class; the user commands' records that it ran.
FirstRunBehavior(w, c) ==
  CASE Kind(c) = "DelayCommand" ->
         Let(CmdEvent(w, "first_run_behavior", c), LAMBDA w1 : DelayFirstRunBehavior(w1, c))
    [] Kind(c) = "ParallelCommand" -> ParallelFirstRunFrom(w, c, 1)
    [] OTHER -> CmdEvent(w, "first_run_behavior", c)

\* Command.first_run
FirstRun(w, c) ==
  IF ~w.command[c].first_run_occurred
  THEN Then(FirstRunBehavior(w, c), LAMBDA w1 :
         [w1 EXCEPT !.command[c].first_run_occurred = TRUE])
  ELSE w

\* ParallelCommand.is_complete that asks its first child only.
ParallelIsCompleteFirst(w, c, i) ==
  IF w.command[c].commands = <<>>
  THEN Return(w, TRUE)
  ELSE IsComplete(w, w.command[c].commands[1])

\* ParallelCommand.is_complete: all(...) stops at the first child that is not
\* complete.
ParallelIsCompleteFrom(w, c, i) ==
  IF i > Len(w.command[c].commands)
  THEN Return(w, TRUE)
  ELSE Then(IsComplete(w, w.command[c].commands[i]), LAMBDA w1 :
         IF w1.ret THEN ParallelIsCompleteFrom(w1, c, i + 1) ELSE Return(w1, FALSE))

\* is_complete of each class; the user commands' is the user's.
IsComplete(w, c) ==
  CASE Kind(c) = "DelayCommand" ->
         Let(CmdEvent(w, "is_complete", c), LAMBDA w1 : DelayIsComplete(w1, c))
    [] Kind(c) = "ParallelCommand" -> ParallelIsCompleteFrom(w, c, 1)
    [] Kind(c) = "DynamicCommand" -> DynamicIsCompleteFrom(w, c, 1)
    [] OTHER -> Return(CmdEvent(w, "is_complete", c), env.done[c])

\* ParallelCommand.periodic that replaces a complete child and leaves the
\* successor's first_run() to a later tick.
ParallelPeriodicChildDeferred(w, c, i) ==
  LET child == w.command[c].commands[i]
  IN IF w.ret /\ ~HasAttr(w, child, "next_command")
     THEN Raise(w, "AttributeError")
     ELSE IF w.ret /\ w.command[child].next_command # None
     THEN [w EXCEPT !.command[c].commands[i] = w.command[child].next_command]
     ELSE CmdPeriodic(w, child)

\* ParallelCommand.periodic, lines 186-191: the i-th child, whose
\* is_complete() returned w.ret.
ParallelPeriodicChild(w, c, i) ==
  LET child == w.command[c].commands[i]
  IN IF w.ret /\ ~HasAttr(w, child, "next_command")
     THEN Raise(w, "AttributeError")
     ELSE IF w.ret /\ w.command[child].next_command # None
     THEN FirstRun([w EXCEPT !.command[c].commands[i] = w.command[child].next_command],
                   w.command[child].next_command)
     ELSE CmdPeriodic(w, child)

\* ParallelCommand.periodic, from the i-th child on.
ParallelPeriodicFrom(w, c, i) ==
  IF i > Len(w.command[c].commands)
  THEN w
  ELSE Then(IsComplete(w, w.command[c].commands[i]), LAMBDA w1 :
         Then(ParallelPeriodicChild(w1, c, i), LAMBDA w2 :
           ParallelPeriodicFrom(w2, c, i + 1)))

\* periodic of each class: DelayCommand's is `pass`, the user commands' records
\* that it ran.
CmdPeriodic(w, c) ==
  CASE Kind(c) = "DelayCommand" -> CmdEvent(w, "periodic", c)
    [] Kind(c) = "ParallelCommand" -> ParallelPeriodicFrom(w, c, 1)
    [] OTHER -> CmdEvent(w, "periodic", c)

\* ---------------------------------------------------- dependency ordering
\* pyros_math.graph_theory (its contract: spec.md 4.8).
Deps(t) == DepGraphs[env.deps][t]

\* t reaches u along declared dependencies in at most n steps.
RECURSIVE Reaches(_, _, _)
Reaches(t, u, n) ==
  /\ n > 0
  /\ \/ u \in Deps(t)
     \/ \E v \in Deps(t) : Reaches(v, u, n - 1)

\* cycle_is_present_in_any(topics)
CycleIsPresentInAny(topics) ==
  \E t \in Range(topics) : Reaches(t, t, Cardinality(TopicIds))

\* Every Topic of the list comes after all Topics of the list it depends on.
IsDependencyOrder(order) ==
  \A i, j \in DOMAIN order : order[j] \in Deps(order[i]) => j < i

IsPermutation(a, b) ==
  /\ Len(a) = Len(b)
  /\ \A x \in Range(a) \cup Range(b) :
       Cardinality({i \in DOMAIN a : a[i] = x}) = Cardinality({i \in DOMAIN b : b[i] = x})

\* dependecy_sort(topics): the orders it may return; an order that satisfies
\* the dependencies when there is one.
DependecySort(topics) ==
  LET perms == {o \in [DOMAIN topics -> Range(topics)] : IsPermutation(o, topics)}
      good == {o \in perms : IsDependencyOrder(o)}
  IN IF good # {} THEN good ELSE perms

\* -------------------------------------------------------------- log format
\* "{0}".format(x) of a float, and float(text): the text of a float is its
\* shortest representation that reads back as the same float.
Repr(x) == [text |-> "float", digits |-> x]

ParseFloat(text) == text.digits

\* json.dumps / json.loads of a payload whose values are numbers.
JsonDumps(d) == [text |-> "json", items |-> [k \in DOMAIN d |-> Repr(d[k])]]

JsonLoads(text) == [k \in DOMAIN text.items |-> ParseFloat(text.items[k])]

\* "{0}, {1}, {2}".format(json.dumps(message.message), time, delta)
FormatStored(message, current_time_seconds, delta_time_seconds) ==
  <<JsonDumps(message.message), Repr(current_time_seconds), Repr(delta_time_seconds)>>

\* "{0}, {1}\n".format(present_time, json.dumps(stored_messages))
FormatLine(present_time, stored_messages) ==
  [time |-> Repr(present_time), data |-> stored_messages]

\* architecture.topicLogUtil (its contract: spec.md 6).
\* dump_file_contents(path): the ordered timestamps and the raw per-tick
\* contents of the lines after the header.
DumpFileContents(file) ==
  << [i \in DOMAIN file.lines |-> ParseFloat(file.lines[i].time)],
     [i \in DOMAIN file.lines |-> file.lines[i].data] >>

\* construct_dictionary_of_messages_vs_time: per Topic name, time -> (message,
\* time, delta).
ConstructDictionaryOfMessagesVsTime(time_stamps, contents) ==
  LET names == UNION {DOMAIN contents[i] : i \in DOMAIN contents}
      at(n) == {i \in DOMAIN contents : n \in DOMAIN contents[i]}
  IN [n \in names |->
        [tm \in {time_stamps[i] : i \in at(n)} |->
           LET i == CHOOSE i \in at(n) : time_stamps[i] = tm
               e == contents[i][n]
           IN <<JsonLoads(e[1]), ParseFloat(e[2]), ParseFloat(e[3])>>]]

\* get_message_at_time(time, index): Topic name -> (message, time, delta).
GetMessageAtTime(time, read_topics) ==
  [n \in {n \in DOMAIN read_topics : time \in DOMAIN read_topics[n]} |->
     read_topics[n][time]]

\* -------------------------------------------------------------- Scheduler
\* Scheduler.__init__
SchedulerInit(is_sim, file_reading_name) ==
  [ topics |-> <<>>, subscribers |-> <<>>, is_sim |-> is_sim,
    throw_exception_on_init_failure |-> TRUE, root_command |-> None,
    writing_file_name |-> PyNone, file_reading_name |-> file_reading_name,
    read_topics |-> PyNone, time_stamps |-> PyNone ]

\* Scheduler.begin_log
BeginLog(w) ==
  IF w.sched.is_sim THEN w
  ELSE Let(ReadClock(w), LAMBDA w1 :
         [w1 EXCEPT !.sched.writing_file_name = Str(<<"log_", w1.clock>>),
                    !.files = Put(@, <<"log_", w1.clock>>,
                                  [header |-> "Time, TopicMessageDictionaries",
                                   lines |-> <<>>])])

\* The RuntimeErrors of initialize, told apart by their messages.
HardwareFailed == "RuntimeError: Hardware for Subscriber failed to initialize"

TopicsSameName == "RuntimeError: Two or more Topics cannot have the same name"

TopicAndSubscriberSameName == "RuntimeError: Topic and Subscriber cannot have the same name"

\* Scheduler.init_hardware, from the i-th Subscriber on; the user's
\* initialize_hardware records that it ran.
RECURSIVE InitHardwareFrom(_, _)
InitHardwareFrom(w, i) ==
  IF i > Len(w.sched.subscribers) THEN w
  ELSE LET sub == w.sched.subscribers[i]
       IN Let(CmdEvent(w, "initialize_hardware", sub), LAMBDA w1 :
            IF w1.sched.throw_exception_on_init_failure /\ ~env.hardware[sub]
            THEN Raise(w1, HardwareFailed)
            ELSE Let([w1 EXCEPT !.subscriber[sub].is_sim = w1.sched.is_sim], LAMBDA w2 :
                   InitHardwareFrom(w2, i + 1)))

InitHardware(w) == InitHardwareFrom(w, 1)

\* Scheduler.check_topic_name_collision comparing each Topic with the one
\* visited just before it only.
RECURSIVE CheckTopicNameCollisionAdjacent(_, _)
CheckTopicNameCollisionAdjacent(w, i) ==
  LET topics == w.sched.topics
  IN IF i > Len(topics) THEN w
     ELSE IF i > 1 /\ Name(topics[i - 1]) = Name(topics[i])
     THEN Raise(w, TopicsSameName)
     ELSE IF \E s \in Range(w.sched.subscribers) : Name(topics[i]) = Name(s)
     THEN Raise(w, TopicAndSubscriberSameName)
     ELSE CheckTopicNameCollisionAdjacent(w, i + 1)

\* Scheduler.check_topic_name_collision, from the i-th Topic on: the Topics
\* before it are the visited ones.
RECURSIVE CheckTopicNameCollisionFrom(_, _)
CheckTopicNameCollisionFrom(w, i) ==
  LET topics == w.sched.topics
  IN IF i > Len(topics) THEN w
     ELSE IF \E j \in 1 .. (i - 1) : Name(topics[i]) = Name(topics[j])
     THEN Raise(w, TopicsSameName)
     ELSE IF \E s \in Range(w.sched.subscribers) : Name(topics[i]) = Name(s)
     THEN Raise(w, TopicAndSubscriberSameName)
     ELSE CheckTopicNameCollisionFrom(w, i + 1)

CheckTopicNameCollision(w) == CheckTopicNameCollisionFrom(w, 1)

\* Scheduler.initialize, lines 37-41.
LoadLog(w) ==
  IF ~w.sched.is_sim THEN w
  ELSE IF w.sched.file_reading_name.type = "NoneType" THEN Raise(w, "Exception")
  ELSE Let(DumpFileContents(w.files[w.sched.file_reading_name.val]), LAMBDA dumped :
         [w EXCEPT !.sched.time_stamps = List(dumped[1]),
                   !.sched.read_topics =
                      Dict(ConstructDictionaryOfMessagesVsTime(dumped[1], dumped[2]))])

\* Scheduler.initialize, lines 26-29, with `order` what dependecy_sort returns.
SortTopics(w, order) ==
  IF CycleIsPresentInAny(order)
  THEN Raise([w EXCEPT !.sched.topics = order], "TopicCircularDependency")
  ELSE [w EXCEPT !.sched.topics = order]

\* Scheduler.initialize opening the log before it looks for a cycle.
InitializeLogFirst(w, order) ==
  Then(Then(Then(Then(BeginLog(w), LAMBDA w1 : SortTopics(w1, order)), InitHardware),
            CheckTopicNameCollision), LoadLog)

\* Scheduler.initialize
Initialize(w, order) ==
  Then(Then(Then(Then(SortTopics(w, order), BeginLog), InitHardware),
            CheckTopicNameCollision), LoadLog)

\* Scheduler.advance_command
AdvanceCommand(w) ==
  IF w.sched.root_command = None THEN w
  ELSE Then(IsComplete(w, w.sched.root_command), LAMBDA w1 :
         IF ~w1.ret THEN w1
         ELSE IF ~HasAttr(w1, w1.sched.root_command, "next_command")
         THEN Raise(w1, "AttributeError")
         ELSE [w1 EXCEPT !.sched.root_command = w1.command[@].next_command])

\* Scheduler.periodic, lines 54-55.
RootFirstRun(w) ==
  LET root == w.sched.root_command
  IN IF root = None THEN w
     ELSE IF ~HasAttr(w, root, "first_run_occured") THEN Raise(w, "AttributeError")
     ELSE IF ~w.command[root].first_run_occured THEN FirstRun(w, root)
     ELSE w

\* Scheduler.periodic, lines 60-63.
RootPeriodic(w) ==
  IF w.sched.root_command # None
  THEN CmdPeriodic(w, w.sched.root_command)
  ELSE CmdEvent(w, "no_further_command", None)

\* Scheduler.periodic, lines 54-63: the command step.
CommandStep(w) == Then(Then(Then(w, RootFirstRun), AdvanceCommand), RootPeriodic)

\* A Topic has published: the event holds what publish_periodic or
\* publish_periodic_from_log returned (w.ret), under the Topic's name.
PublishEvent(w, t) ==
  Event(w, [ev |-> "publish", who |-> t, seen |-> Put(EmptyDict, Name(t), w.ret)])

\* Scheduler.periodic, lines 73-77: a Topic replayed from the log.
PublishLogged(w, t, all_logged_messages) ==
  IF Name(t) \notin DOMAIN all_logged_messages
  THEN Raise(w, "KeyError")
  ELSE LET e == all_logged_messages[Name(t)]
       IN Then(Message(w, Dict(e[1])), LAMBDA w1 :
            PublishPeriodicFromLog(w1, t, [w1.ret EXCEPT !.time_stamp = e[2]], e[2], e[3]))

\* Scheduler.periodic, lines 72-82: the body of the loop over the Topics; ret
\* is (message, current_time_seconds, delta_time_seconds).
PublishTopic(w, t, all_logged_messages, hw) ==
  IF w.sched.is_sim /\ w.topic[t].replace_message_with_log
  THEN PublishLogged(w, t, all_logged_messages)
  ELSE PublishPeriodic(w, t, hw)

\* Scheduler.periodic, lines 71-82: the Topics publish, from the i-th on;
\* stored holds stored_messages.
RECURSIVE PublishFrom(_, _, _, _, _)
PublishFrom(w, i, stored, all_logged_messages, hw) ==
  IF i > Len(w.sched.topics) THEN Return(w, stored)
  ELSE LET t == w.sched.topics[i]
       IN Then(PublishTopic(w, t, all_logged_messages, hw), LAMBDA w1 :
            Let(Put(stored, Name(t), FormatStored(w1.ret[1], w1.ret[2], w1.ret[3])),
                LAMBDA stored1 :
                  PublishFrom(PublishEvent(w1, t), i + 1, stored1,
                              all_logged_messages, hw)))

\* Scheduler.periodic, lines 87-89: the line appended to the live log;
\* stored_messages is w.ret.
WriteLog(w, present_time) ==
  IF w.sched.is_sim \/ DOMAIN w.ret = {} THEN w
  ELSE IF w.sched.writing_file_name.type = "NoneType" THEN Raise(w, "TypeError")
  ELSE Event([w EXCEPT !.files[w.sched.writing_file_name.val].lines =
                          Append(@, FormatLine(present_time, w.ret))],
             [ev |-> "log", who |-> None, seen |-> EmptyDict])

\* Scheduler.periodic, lines 91-96: periodic() of the objects of a list, from
\* the i-th on.
RECURSIVE PeriodicFrom(_, _, _)
PeriodicFrom(w, list, i) ==
  IF i > Len(list) THEN w
  ELSE Then(SubscriberPeriodic(w, list[i]), LAMBDA w1 : PeriodicFrom(w1, list, i + 1))

\* Scheduler.periodic, lines 91-92.
SubscribersPeriodic(w) == PeriodicFrom(w, w.sched.subscribers, 1)

\* Scheduler.periodic, lines 95-96.
TopicsPeriodic(w) == PeriodicFrom(w, w.sched.topics, 1)

\* Scheduler.periodic, lines 65-82.
PublishTopics(w, present_time, hw) ==
  Let(IF w.sched.is_sim
      THEN GetMessageAtTime(present_time, w.sched.read_topics.val)
      ELSE EmptyDict,
      LAMBDA all_logged_messages :
        PublishFrom(w, 1, EmptyDict, all_logged_messages, hw))

\* Scheduler.periodic with the Subscribers' periodic() moved before the
\* Topics publish.
PeriodicBodySubscribersFirst(w, present_time, hw) ==
  Then(Then(Then(Then(Then(w, CommandStep),
                      SubscribersPeriodic),
                 LAMBDA w1 : PublishTopics(w1, present_time, hw)),
            LAMBDA w2 : WriteLog(w2, present_time)),
       TopicsPeriodic)

\* Scheduler.periodic, lines 54-96, at tick time present_time.
PeriodicBody(w, present_time, hw) ==
  Then(Then(Then(Then(CommandStep(w),
                      LAMBDA w1 : PublishTopics(w1, present_time, hw)),
                 LAMBDA w2 : WriteLog(w2, present_time)),
            SubscribersPeriodic),
       TopicsPeriodic)

\* Scheduler.periodic returning at once, without an error, when no timestamp
\* is left.
PeriodicIgnoringExhaustion(w, hw) ==
  Let(ReadClock(w), LAMBDA w1 :
    IF ~w1.sched.is_sim
    THEN PeriodicBody(w1, w1.clock, hw)
    ELSE IF w1.sched.time_stamps.type = "NoneType" THEN Raise(w1, "AttributeError")
    ELSE IF w1.sched.time_stamps.val = <<>> THEN w1
    ELSE PeriodicBody([w1 EXCEPT !.sched.time_stamps = List(Tail(@.val))],
                      Head(w1.sched.time_stamps.val), hw))

\* Scheduler.periodic
Periodic(w, hw) ==
  Let(ReadClock(w), LAMBDA w1 :
    IF ~w1.sched.is_sim
    THEN PeriodicBody(w1, w1.clock, hw)
    ELSE IF w1.sched.time_stamps.type = "NoneType" THEN Raise(w1, "AttributeError")
    ELSE IF w1.sched.time_stamps.val = <<>> THEN Raise(w1, "IndexError")
    ELSE PeriodicBody([w1 EXCEPT !.sched.time_stamps = List(Tail(@.val))],
                      Head(w1.sched.time_stamps.val), hw))

\* Scheduler.set_command_group
SetCommandGroup(w, head) == [w EXCEPT !.sched.root_command = head]

\* Scheduler.add_topics / Scheduler.add_subscribers with one argument.
AddTopics(w, t) == [w EXCEPT !.sched.topics = Append(@, t)]

AddSubscribers(w, s) == [w EXCEPT !.sched.subscribers = Append(@, s)]

\* ------------------------------------------------------------ the program
\* The programs modelled: a Scheduler configured and ticked by a driver (and
\* run again in simulation mode on the log it wrote), and a ParallelCommand,
\* a DynamicCommand and a DelayCommand driven directly through their methods
\* (env.scenario: "scheduler", "parallel", "dynamic", "delay"), and a chain
\* built by direct setNext calls ("chain").
\* The commands as the program constructs them: A.setNext(B).setNext(C),
\* X.setNext(X2), ParallelCommand([X, Y]), DelayCommand(d, SystemTime).
ConstructedCommands(d) ==
  LET base == [c \in CommandIds |->
                 CASE Kind(c) = "DelayCommand" -> DelayCommandInit(d, "SystemTime", "Delay Command")
                   [] Kind(c) = "ParallelCommand" -> ParallelCommandInit(<<"X", "Y">>, "Parallel Command")
                   [] Kind(c) = "DynamicCommand" -> DynamicCommandInit(<<>>)
                   [] OTHER -> CommandInit(<<>>)]
      w0 == [command |-> base, raised |-> NoError]
  IN SetNext(SetNext(SetNext(w0, "A", "B"), "A", "C"), "X", "X2").command

\* What the Scheduler and the commands do not decide, when the program
\* starts: no user command is complete, no boolean supplier returns True, all
\* hardware initializes, every object is named after itself.
Environment(sc, g) ==
  [ scenario |-> sc, deps |-> g,
    done |-> [c \in UserCommands |-> FALSE],
    pred |-> [q \in Predicates |-> FALSE],
    hardware |-> [s \in SubscriberIds |-> TRUE],
    names |-> [o \in TopicIds \cup SubscriberIds |-> o] ]

\* The state after construction of the program in the environment e, with the
\* DelayCommand constructed with delay d.
Constructed(e, d) ==
  /\ env = e
  /\ sched = SchedulerInit(FALSE, PyNone)
  /\ topic = [t \in TopicIds |-> TopicInit(t, 0)]
  /\ subscriber = [o \in TopicIds \cup SubscriberIds |-> SubscriberInit(FALSE, Name(o))]
  /\ files = EmptyDict
  /\ clock = 0
  /\ command = ConstructedCommands(d)
  /\ hist = [ who |-> "program", op |-> "init", raised |-> NoError, ret |-> FALSE,
              trace |-> <<>>, at |-> e, ticks |-> 0, inits |-> 0, run |-> "live",
              head |-> None, root |-> None, sinceDone |-> 0,
              setups |-> [c \in CommandIds |-> 0], live |-> <<>>,
              pre |-> <<>>, regs |-> <<>>, calls |-> <<>>, elapsed |-> 0 ]

\* A Scheduler program, for each dependency graph.
Init == \E g \in DOMAIN DepGraphs : Constructed(Environment("scheduler", g), MaxDelay)

\* A program that drives a ParallelCommand, a DynamicCommand, or a
\* DelayCommand of any delay.
InitCommands ==
  \/ \E sc \in {"parallel", "dynamic", "chain"} :
       Constructed(Environment(sc, "tree"), MaxDelay)
  \/ \E d \in 0 .. MaxDelay : Constructed(Environment("delay", "tree"), d)

\* A program that publishes on Topics directly.
InitTopics == Constructed(Environment("publish", "tree"), MaxDelay)

\* A program that only configures and initializes a Scheduler: with any
\* dependency graph, any names, and hardware that may fail to initialize.
InitConfig ==
  \E g \in DOMAIN DepGraphs, n \in Namings, h \in [SubscriberIds -> BOOLEAN] :
    Constructed([Environment("config", g) EXCEPT !.names = n, !.hardware = h], MaxDelay)

\* The events e of a trace with e.ev = ev and e.who = who.
Events(trace, ev, who) ==
  SelectSeq(trace, LAMBDA e : e.ev = ev /\ e.who = who)

\* What the Topics returned from publishing in a trace: Topic -> (Message,
\* time, delta).
Published(trace) ==
  LET pubs == SelectSeq(trace, LAMBDA e : e.ev = "publish")
  IN [t \in {pubs[i].who : i \in DOMAIN pubs} |->
        LET i == CHOOSE i \in DOMAIN pubs : pubs[i].who = t
        IN pubs[i].seen[Name(t)]]

\* The names of the Topics that published in a trace, in order.
PublishOrder(trace) ==
  LET pubs == SelectSeq(trace, LAMBDA e : e.ev = "publish")
  IN [i \in DOMAIN pubs |-> pubs[i].who]

\* The state an operation leaves, and what the history records of it: who ran
\* what, the exception and the events, and the environment it ran in.
Commit(w, who, op, h) ==
  /\ hist.raised # "NonTermination"
  /\ sched' = w.sched
  /\ topic' = w.topic
  /\ subscriber' = w.subscriber
  /\ command' = w.command
  /\ files' = w.files
  /\ clock' = w.clock
  /\ hist' = [h EXCEPT !.who = who, !.op = op, !.raised = w.raised,
                       !.trace = w.trace, !.at = env,
                       !.ret = IF op = "is_complete" /\ Ok(w) THEN w.ret ELSE FALSE]

Idle == {}

\* --------------------------------------------------- the Scheduler's driver
DoAddTopics ==
  /\ env.scenario \in {"scheduler", "config"}
  /\ hist.run = "live"
  /\ \E t \in TopicIds \ Range(sched.topics) :
       \E w \in {AddTopics(World(Idle), t)} :
            Commit(w, "scheduler", "add_topics", hist)
  /\ UNCHANGED env

DoAddSubscribers ==
  /\ env.scenario \in {"scheduler", "config"}
  /\ hist.run = "live"
  /\ \E s \in SubscriberIds \ Range(sched.subscribers) :
       \E w \in {AddSubscribers(World(Idle), s)} :
            Commit(w, "scheduler", "add_subscribers", hist)
  /\ UNCHANGED env

DoSetCommandGroup ==
  /\ env.scenario = "scheduler"
  /\ hist.run = "live"
  /\ sched.root_command = None
  /\ hist.ticks = 0
  /\ \E head \in {"A", "D"} :
       \E w \in {SetCommandGroup(World(Idle), head)} :
            Commit(w, "scheduler", "set_command_group",
              [hist EXCEPT !.head = head])
  /\ UNCHANGED env

DoInitialize ==
  /\ env.scenario \in {"scheduler", "config"}
  /\ hist.inits < MaxInits
  /\ \E order \in DependecySort(sched.topics) :
       \E w \in {Initialize(World(Idle), order)} :
            Commit(w, "scheduler", "initialize",
              [hist EXCEPT !.inits = @ + 1,
                           !.pre = <<files, sched.writing_file_name>>])
  /\ UNCHANGED env

DoPeriodic ==
  /\ env.scenario = "scheduler"
  /\ hist.ticks < MaxTicks
  /\ \E jumps \in JumpSets, hw \in {0, 1} :
       /\ \E w \in {Periodic(World(jumps \cup {1}), hw)} :
            Commit(w, "scheduler", "periodic",
                 [hist EXCEPT
                    !.ticks = @ + 1,
                    !.pre = <<files, sched.time_stamps>>,
                    !.root = sched.root_command,
                    !.sinceDone = IF @ > 0 \/ (sched.root_command = "A" /\ env.done["A"])
                                  THEN @ + 1 ELSE 0,
                    !.setups = [c \in CommandIds |->
                                  @[c] + Len(Events(w.trace, "first_run_behavior", c))],
                    !.live = IF Events(w.trace, "log", None) # <<>>
                             THEN Append(@, Published(w.trace))
                             ELSE @])
  /\ UNCHANGED env

\* The program turns strict initialization off:
\* scheduler.throw_exception_on_init_failure = False.
DoAllowInitFailure ==
  /\ env.scenario = "config"
  /\ sched.throw_exception_on_init_failure
  /\ hist.inits = 0
  /\ \E w \in {[World(Idle) EXCEPT !.sched.throw_exception_on_init_failure = FALSE]} :
       Commit(w, "scheduler", "allow_init_failure", hist)
  /\ UNCHANGED env

\* The user command the Scheduler is running becomes complete.
DoComplete ==
  /\ env.scenario = "scheduler"
  /\ sched.root_command \in UserCommands
  /\ ~env.done[sched.root_command]
  /\ env' = [env EXCEPT !.done[sched.root_command] = TRUE]
  /\ UNCHANGED <<sched, topic, subscriber, command, files, clock, hist>>

\* The program is run again in simulation mode on the log it wrote: every
\* object is constructed anew and the same Topics, Subscribers and command
\* group are given to Scheduler(is_sim=True, file_reading_name=<the log>).
DoStartReplay ==
  /\ env.scenario = "scheduler"
  /\ hist.run = "live"
  /\ sched.writing_file_name.type = "str"
  /\ sched' = [SchedulerInit(TRUE, sched.writing_file_name) EXCEPT
                 !.topics = sched.topics, !.subscribers = sched.subscribers,
                 !.root_command = hist.head]
  /\ topic' = [t \in TopicIds |-> TopicInit(t, clock)]
  /\ subscriber' = [o \in TopicIds \cup SubscriberIds |-> SubscriberInit(FALSE, Name(o))]
  /\ command' = ConstructedCommands(command["D"].delay_time)
  /\ env' = Environment(env.scenario, env.deps)
  /\ hist' = [hist EXCEPT !.who = "program", !.op = "restart", !.raised = NoError,
                          !.trace = <<>>, !.ret = FALSE,
                          !.at = Environment(env.scenario, env.deps),
                          !.ticks = 0, !.inits = 0, !.run = "replay",
                          !.root = None, !.sinceDone = 0,
                          !.setups = [c \in CommandIds |-> 0]]
  /\ UNCHANGED <<files, clock>>

\* ------------------------------------------- a ParallelCommand driven directly
\* The commands a ParallelCommand holds or may come to hold.
ParallelChildren == {"X", "X2", "Y"}

\* A child of the ParallelCommand, or a successor of one, becomes complete.
DoChildComplete ==
  /\ env.scenario = "parallel"
  /\ \E c \in ParallelChildren :
       /\ ~env.done[c]
       /\ env' = [env EXCEPT !.done[c] = TRUE]
  /\ UNCHANGED <<sched, topic, subscriber, command, files, clock, hist>>

DoParallelFirstRun ==
  /\ env.scenario = "parallel"
  /\ \E w \in {FirstRun(World(Idle), "P")} :
       Commit(w, "P", "first_run",
            [hist EXCEPT !.pre = command["P"].commands])
  /\ UNCHANGED env

DoParallelPeriodic ==
  /\ env.scenario = "parallel"
  /\ \E w \in {CmdPeriodic(World(Idle), "P")} :
       Commit(w, "P", "periodic",
            [hist EXCEPT !.pre = command["P"].commands])
  /\ UNCHANGED env

DoParallelIsComplete ==
  /\ env.scenario = "parallel"
  /\ \E w \in {IsComplete(World(Idle), "P")} :
       Commit(w, "P", "is_complete",
            [hist EXCEPT !.pre = command["P"].commands])
  /\ UNCHANGED env

\* -------------------------------------------- a DynamicCommand driven directly
DoSetNextOption ==
  /\ env.scenario = "dynamic"
  /\ Len(command["Dy"].conditions) < MaxOptions
  /\ \E nextCommand \in {"S1", "S2"}, boolean_supplier \in Predicates :
       \E w \in {SetNextOption(World(Idle), "Dy", nextCommand, boolean_supplier)} :
         Commit(w, "Dy", "setNextOption",
              [hist EXCEPT !.regs = Append(@, <<boolean_supplier, nextCommand>>)])
  /\ UNCHANGED env

\* What a boolean supplier returns changes.
DoSetPredicate ==
  /\ env.scenario = "dynamic"
  /\ hist.raised # "NonTermination"
  /\ \E q \in Predicates : env' = [env EXCEPT !.pred[q] = ~@]
  /\ UNCHANGED <<sched, topic, subscriber, command, files, clock, hist>>

\* The next_command attribute of every Command; a ParallelCommand has none.
Links(commands) ==
  [c \in CommandIds |->
     IF "next_command" \in DOMAIN commands[c] THEN commands[c].next_command
     ELSE "absent"]

DoDynamicIsComplete ==
  /\ env.scenario = "dynamic"
  /\ \E w \in {IsComplete(World(Idle), "Dy")} :
       Commit(w, "Dy", "is_complete",
            [hist EXCEPT !.pre = <<command["Dy"].next_command, Links(command)>>])
  /\ UNCHANGED env

\* ------------------------------------------------- setNext called directly
\* An argument of setNext that is no Command.
NotACommand == "not a Command"

\* The commands setNext is called on, and the arguments it is given: a chain
\* is built on a user command or on a ParallelCommand, out of user commands,
\* a ParallelCommand and a value that is no Command; a DynamicCommand is
\* given a successor.
SetNextHeads == IF env.scenario = "chain" THEN {"S1", "P"} ELSE {"Dy"}

SetNextArguments ==
  IF env.scenario = "chain" THEN {"S2", "Y", "P", NotACommand} ELSE {"Y"}

DoSetNext ==
  /\ env.scenario \in {"chain", "dynamic"}
  /\ Len(hist.calls) < MaxCalls
  /\ \E h \in SetNextHeads, next_command \in SetNextArguments :
       \E w \in {SetNext(World(Idle), h, next_command)} :
         Commit(w, h, "setNext",
                [hist EXCEPT !.pre = <<Links(command)>>,
                             !.calls = Append(@, <<h, next_command>>)])
  /\ UNCHANGED env

\* ---------------------------------------------- a DelayCommand driven directly
\* The SystemTimeTopic publishes, some time after the last operation.
DoTimerPublish ==
  /\ env.scenario = "delay"
  /\ clock < MaxTime
  /\ \E jumps \in JumpSets :
       \E w \in {PublishPeriodic(World(jumps \cup {1}), "SystemTime", 0)} :
          Commit(w, "SystemTime", "publish_periodic",
                 [hist EXCEPT !.elapsed =
                    IF command["D"].first_run_occurred
                    THEN @ + w.topic["SystemTime"].message.Unix
                           - topic["SystemTime"].message.Unix
                    ELSE 0])
  /\ UNCHANGED env

\* Time passes while nothing is published.
DoWait ==
  /\ env.scenario = "delay"
  /\ clock < MaxTime
  /\ clock' = clock + 1
  /\ UNCHANGED <<sched, topic, subscriber, command, files, env, hist>>

DoDelayFirstRun ==
  /\ env.scenario = "delay"
  /\ \E w \in {FirstRun(World(Idle), "D")} :
       Commit(w, "D", "first_run", hist)
  /\ UNCHANGED env

DoDelayPeriodic ==
  /\ env.scenario = "delay"
  /\ \E w \in {CmdPeriodic(World(Idle), "D")} :
       Commit(w, "D", "periodic", hist)
  /\ UNCHANGED env

DoDelayIsComplete ==
  /\ env.scenario = "delay"
  /\ \E w \in {IsComplete(World(Idle), "D")} :
       Commit(w, "D", "is_complete", hist)
  /\ UNCHANGED env

\* --------------------------------------------------- Topics driven directly
\* A Topic publishes what it generates.
DoPublishPeriodic ==
  /\ env.scenario = "publish"
  /\ Len(hist.calls) < MaxCalls
  /\ \E t \in TopicIds, jumps \in JumpSets, hw \in {0, 1} :
       \E w \in {PublishEvent(PublishPeriodic(World(jumps), t, hw), t)} :
         Commit(w, t, "publish_periodic",
                [hist EXCEPT !.pre = <<subscriber>>,
                             !.calls = Append(@, <<t, "publish_periodic">>)])
  /\ UNCHANGED env

\* A Topic publishes a logged (message, time, delta), handed to it as
\* Scheduler.periodic does.
DoPublishPeriodicFromLog ==
  /\ env.scenario = "publish"
  /\ Len(hist.calls) < MaxCalls
  /\ \E t \in TopicIds, jumps \in JumpSets, v \in {0, 1}, current_time \in {0, 1} :
       \E w \in {PublishEvent(
                   PublishLogged(World(jumps), t,
                                 Put(EmptyDict, Name(t), <<[v |-> v], current_time, 0>>)),
                   t)} :
         Commit(w, t, "publish_periodic_from_log",
                [hist EXCEPT !.pre = <<subscriber>>,
                             !.calls = Append(@, <<t, "publish_periodic_from_log">>)])
  /\ UNCHANGED env

Next ==
  \/ DoAddTopics
  \/ DoAddSubscribers
  \/ DoSetCommandGroup
  \/ DoInitialize
  \/ DoPeriodic
  \/ DoComplete
  \/ DoStartReplay

NextCommands ==
  \/ DoChildComplete
  \/ DoParallelFirstRun
  \/ DoParallelPeriodic
  \/ DoParallelIsComplete
  \/ DoSetNextOption
  \/ DoSetPredicate
  \/ DoDynamicIsComplete
  \/ DoSetNext
  \/ DoTimerPublish
  \/ DoWait
  \/ DoDelayFirstRun
  \/ DoDelayPeriodic
  \/ DoDelayIsComplete

\* The Scheduler program.
NextConfig ==
  \/ DoAddTopics
  \/ DoAddSubscribers
  \/ DoAllowInitFailure
  \/ DoInitialize

Spec == Init /\ [][Next]_vars

\* The programs that drive commands directly.
SpecCommands == InitCommands /\ [][NextCommands]_vars

NextTopics ==
  \/ DoPublishPeriodic
  \/ DoPublishPeriodicFromLog

\* The programs that publish on Topics directly.
SpecTopics == InitTopics /\ [][NextTopics]_vars

\* The programs that configure and initialize a Scheduler.
SpecConfig == InitConfig /\ [][NextConfig]_vars

\* ------------------------------------------------------------- properties
\* C1: with the chain A -> B -> C as the Scheduler's root command, once A is
\* complete the next tick runs B's one-time setup, exactly once: after two
\* ticks begun with A complete, B's first_run_behavior has run once.
C1_SuccessorSetupRuns ==
  hist.sinceDone >= 2 => hist.setups["B"] = 1

\* C2: in every tick in which a root command exists the command step does not
\* fail, and periodic() runs on the command that is current after the advance.
C2_CommandStepRuns ==
  (hist.op = "periodic" /\ hist.run = "live" /\ hist.root # None) =>
    /\ hist.raised # "AttributeError"
    /\ sched.root_command # None =>
         Events(hist.trace, "periodic", sched.root_command) # <<>>

\* C3: within a tick every Subscriber.periodic() and Topic.periodic() call
\* happens after all Topics have published, and what the object then holds
\* for a Topic it is registered with is the Message that Topic published in
\* this tick.
C3_WriteBeforeRead ==
  hist.op = "periodic" =>
    \A i \in DOMAIN hist.trace :
      LET e == hist.trace[i]
      IN e.ev \in {"sub_periodic", "topic_periodic"} =>
           /\ \A j \in DOMAIN hist.trace : hist.trace[j].ev = "publish" => j < i
           /\ PublishOrder(hist.trace) = sched.topics
           /\ \A t \in Range(sched.topics) :
                e.who \in Range(topic[t].subscribers) =>
                  /\ Name(t) \in DOMAIN e.seen
                  /\ e.seen[Name(t)] = Published(hist.trace)[t][1]

\* A second tick in which the Subscriber and a Topic that is a Subscriber run
\* their periodic() after three Topics have published.
C3_Witness ==
  /\ hist.op = "periodic"
  /\ hist.raised = NoError
  /\ hist.ticks = 2
  /\ Len(sched.topics) = 3
  /\ Events(hist.trace, "sub_periodic", "drive") # <<>>
  /\ Events(hist.trace, "topic_periodic", "odom") # <<>>

\* C4: with an acyclic dependency graph, in every tick after initialize()
\* each Topic the Scheduler holds publishes exactly once, after all Topics it
\* depends on, whatever the sequence of add_topics, initialize and periodic.
C4_PublishInDependencyOrder ==
  (hist.op = "periodic" /\ hist.raised = NoError /\ hist.inits > 0
     /\ env.deps # "cyclic") =>
    /\ IsPermutation(PublishOrder(hist.trace), sched.topics)
    /\ IsDependencyOrder(PublishOrder(hist.trace))

\* C5: DynamicCommand.is_complete() evaluates the predicates in registration
\* order up to the first that is true, returns whether there is one, and
\* selects the successor registered with it (installed as the link when there
\* was none); with no true predicate the link is unchanged.
C5_FirstMatchWins ==
  (hist.who = "Dy" /\ hist.op = "is_complete" /\ hist.raised = NoError) =>
    LET regs == hist.regs
        matches == {i \in DOMAIN regs : hist.at.pred[regs[i][1]]}
        evaluated == [i \in DOMAIN hist.trace |-> hist.trace[i].who]
    IN IF matches = {}
       THEN /\ ~hist.ret
            /\ evaluated = [i \in DOMAIN regs |-> regs[i][1]]
            /\ command["Dy"].next_command = hist.pre[1]
       ELSE LET m == CHOOSE i \in matches : \A j \in matches : i <= j
            IN /\ hist.ret
               /\ evaluated = [i \in 1 .. m |-> regs[i][1]]
               /\ hist.pre[1] = None => command["Dy"].next_command = regs[m][2]

\* C6: ParallelCommand.periodic() replaces in place each child that is
\* complete and has a successor, and runs the successor's first_run() in the
\* same call; every other child keeps its slot and has its periodic() run.
C6_ParallelReplacesInPlace ==
  (hist.who = "P" /\ hist.op = "periodic" /\ hist.raised = NoError) =>
    /\ Len(command["P"].commands) = Len(hist.pre)
    /\ \A i \in DOMAIN hist.pre :
         LET child == hist.pre[i]
             succ == command[child].next_command
         IN IF hist.at.done[child] /\ succ # None
            THEN /\ command["P"].commands[i] = succ
                 /\ Len(Events(hist.trace, "first_run_behavior", succ)) = 1
                 /\ command[succ].first_run_occurred
                 /\ Events(hist.trace, "periodic", child) = <<>>
            ELSE /\ command["P"].commands[i] = child
                 /\ Len(Events(hist.trace, "periodic", child)) = 1

\* ParallelCommand([X, Y]).periodic() with X complete and Y not: X2 holds X's
\* slot and Y's periodic() has run.
C6_Witness ==
  /\ hist.who = "P" /\ hist.op = "periodic" /\ hist.raised = NoError
  /\ hist.pre = <<"X", "Y">>
  /\ hist.at.done["X"] /\ ~hist.at.done["Y"]
  /\ command["P"].commands = <<"X2", "Y">>
  /\ Events(hist.trace, "first_run_behavior", "X2") # <<>>
  /\ Events(hist.trace, "periodic", "Y") # <<>>

\* C7: ParallelCommand.is_complete() is true iff every child it holds at the
\* call is complete.
C7_AllChildrenComplete ==
  (hist.who = "P" /\ hist.op = "is_complete" /\ hist.raised = NoError) =>
    hist.ret = (\A i \in DOMAIN command["P"].commands :
                  hist.at.done[command["P"].commands[i]])

\* The ParallelCommand holds X2 in place of X; X and Y are complete, X2 is
\* not, and is_complete() returned False.
C7_Witness ==
  /\ hist.who = "P" /\ hist.op = "is_complete" /\ hist.raised = NoError
  /\ command["P"].commands = <<"X2", "Y">>
  /\ hist.at.done["X"] /\ hist.at.done["Y"] /\ ~hist.at.done["X2"]
  /\ ~hist.ret

\* C8: after its first run a DelayCommand's is_complete() is true iff the
\* time-Topic's reading has advanced by at least the delay since the first
\* run, whatever the clock shows, and DelayCommand.periodic() changes no
\* state.
C8_DelayElapsed ==
  /\ [](  (hist.who = "D" /\ hist.op = "is_complete" /\ hist.raised = NoError) =>
            hist.ret = (hist.elapsed >= command["D"].delay_time) )
  /\ [][ DoDelayPeriodic =>
           UNCHANGED <<sched, topic, subscriber, command, files, clock, env>> ]_vars

\* is_complete() returned True with the reading advanced by exactly the
\* longest delay, while the clock has moved past the reading.
C8_Witness ==
  /\ hist.who = "D" /\ hist.op = "is_complete" /\ hist.raised = NoError
  /\ command["D"].delay_time = MaxDelay
  /\ hist.elapsed = MaxDelay
  /\ clock > topic["SystemTime"].message.Unix
  /\ hist.ret

\* C9: in replay the time reading a DelayCommand takes from the time-Topic
\* follows the replayed time, as it follows the published time in a live
\* run: after a tick the reading is that of the Message the time-Topic
\* delivered in the tick.
C9_ReplayTimeReachesDelay ==
  (hist.op = "periodic" /\ hist.raised = NoError
     /\ "SystemTime" \in Range(sched.topics)) =>
    topic["SystemTime"].message.Unix
      = subscriber["drive"].messages["SystemTime"].message.Unix

\* C10: the k-th replay tick delivers, for every Topic replayed from the log,
\* the Message (payload and timestamp), time and delta the Topic published in
\* the k-th logged live tick.
C10_ReplayRoundTrip ==
  (hist.run = "replay" /\ hist.op = "periodic" /\ hist.raised = NoError) =>
    LET k == Len(hist.live) - Len(sched.time_stamps.val)
    IN \A t \in Range(sched.topics) :
         topic[t].replace_message_with_log =>
           /\ Published(hist.trace)[t] = hist.live[k][t]
           /\ \A o \in Range(topic[t].subscribers) :
                subscriber[o].messages[Name(t)] = hist.live[k][t][1]

\* C11: setNext(next) on a command h that is no ParallelCommand and has none
\* in its chain: a non-Command argument raises TypeError and changes no link;
\* otherwise the call returns, no link that existed is changed, and next is
\* the successor of what was the tail of h's chain (of h itself when h had no
\* successor).
C11_SetNextAppends ==
  (hist.op = "setNext" /\ hist.who # "P" /\ \A c \in CommandIds : hist.pre[1][c] # "P") =>
    LET h == hist.who
        next == hist.calls[Len(hist.calls)][2]
        was == hist.pre[1]
        now == Links(command)
    IN IF next \notin CommandIds
       THEN hist.raised = "TypeError" /\ now = was
       ELSE /\ hist.raised = NoError
            /\ \A c \in CommandIds : was[c] # None => now[c] = was[c]
            /\ LET before == [command |-> [c \in CommandIds |->
                                   IF was[c] = "absent" THEN [name |-> c]
                                   ELSE [next_command |-> was[c]]]]
                   tail == TailFrom(before, h, Cardinality(CommandIds))
               IN /\ tail \in CommandIds
                  /\ now = [was EXCEPT ![tail] = next]

\* Two registered Topics share a name, or a registered Topic shares a name
\* with a registered Subscriber.
NamesCollide ==
  \/ \E i, j \in DOMAIN sched.topics :
       i # j /\ Name(sched.topics[i]) = Name(sched.topics[j])
  \/ \E t \in Range(sched.topics), s \in Range(sched.subscribers) : Name(t) = Name(s)

CollisionErrors == {TopicsSameName, TopicAndSubscriberSameName}

\* C12 (as stated): whenever two registered Topics share a name, or a Topic
\* shares a name with a registered Subscriber, initialize() raises a collision
\* error, in whatever order the Topics and Subscribers were declared.
C12_CollisionAlwaysRaised ==
  (hist.op = "initialize" /\ NamesCollide) => hist.raised \in CollisionErrors

\* C12 (amended): with such a collision initialize() always raises, in
\* whatever order the Topics and Subscribers were declared: the
\* circular-dependency error if the Topics' dependencies have a cycle,
\* otherwise the hardware error if initialization is strict and the hardware
\* of a registered Subscriber failed, and otherwise a collision error.
C12_CollisionRaised ==
  (hist.op = "initialize" /\ NamesCollide) =>
    IF CycleIsPresentInAny(sched.topics)
    THEN hist.raised = "TopicCircularDependency"
    ELSE IF /\ sched.throw_exception_on_init_failure
            /\ \E s \in Range(sched.subscribers) : ~env.hardware[s]
    THEN hist.raised = HardwareFailed
    ELSE hist.raised \in CollisionErrors

\* initialize() raised the collision error for two Topics of the same name that
\* were declared with another Topic between them, after hardware that failed
\* was tolerated.
C12_Witness ==
  /\ hist.op = "initialize"
  /\ hist.raised = TopicsSameName
  /\ Len(sched.topics) = 3
  /\ Name(sched.topics[1]) = Name(sched.topics[3])
  /\ \E s \in Range(sched.subscribers) : ~env.hardware[s]

\* C13: when the dependencies of the registered Topics contain a cycle,
\* initialize() raises the circular-dependency error, and when it raises no log
\* file has been opened or written (the files and the Scheduler's log name are
\* as before the call) and no Subscriber's hardware has been initialized.
C13_CycleAbortsBeforeLog ==
  (hist.op = "initialize" /\ CycleIsPresentInAny(sched.topics)) =>
    /\ hist.raised = "TopicCircularDependency"
    /\ files = hist.pre[1]
    /\ sched.writing_file_name = hist.pre[2]
    /\ \A i \in DOMAIN hist.trace : hist.trace[i].ev # "initialize_hardware"

\* initialize() raised the circular-dependency error on a live Scheduler with
\* both Topics of the cycle and a Subscriber registered.
C13_Witness ==
  /\ hist.op = "initialize"
  /\ hist.raised = "TopicCircularDependency"
  /\ ~sched.is_sim
  /\ {"imu", "odom"} \subseteq Range(sched.topics)
  /\ sched.subscribers # <<>>

\* C14: a tick of a live Scheduler that has opened its log appends exactly one
\* record to that log, whose map has the names of the registered Topics as
\* keys, for every set of Topics including the empty one, and leaves every
\* other file alone; a tick in simulation mode writes to no file.  (Ticks that
\* complete without raising.)
C14_OneRecordPerLiveTick ==
  (hist.op = "periodic" /\ hist.raised = NoError) =>
    IF sched.is_sim THEN files = hist.pre[1]
    ELSE sched.writing_file_name.type = "str" =>
           LET log == sched.writing_file_name.val
               was == hist.pre[1][log].lines
               now == files[log].lines
           IN /\ Len(now) = Len(was) + 1
              /\ SubSeq(now, 1, Len(was)) = was
              /\ DOMAIN now[Len(now)].data = {Name(t) : t \in Range(sched.topics)}
              /\ \A f \in DOMAIN files \ {log} : files[f] = hist.pre[1][f]

\* C15: after publish_periodic and after publish_periodic_from_log alike, every
\* Subscriber registered with the Topic holds the Message just published under
\* the Topic's name and its entries for other names are as before, every
\* other Subscriber is as before; publish_periodic ran the Topic's generator
\* once, publish_periodic_from_log did not run any generator.
C15_NotifiesIdentically ==
  (hist.op \in {"publish_periodic", "publish_periodic_from_log"}
     /\ env.scenario = "publish") =>
    LET t == hist.who
        msg == Published(hist.trace)[t][1]
        was == hist.pre[1]
        generated == SelectSeq(hist.trace, LAMBDA e : e.ev = "generate_messages_periodic")
    IN /\ hist.raised = NoError
       /\ \A o \in TopicIds \cup SubscriberIds :
            IF o \in Range(topic[t].subscribers)
            THEN subscriber[o] = [was[o] EXCEPT !.messages = Put(@, Name(t), msg)]
            ELSE subscriber[o] = was[o]
       /\ IF hist.op = "publish_periodic"
          THEN Len(generated) = 1 /\ generated[1].who = t
          ELSE generated = <<>>

\* The sensor Topic published a logged Message to a Subscriber that held an
\* older, different Message of it and a Message of another Topic.
C15_Witness ==
  /\ env.scenario = "publish"
  /\ hist.op = "publish_periodic_from_log"
  /\ hist.who = "imu"
  /\ {"imu", "SystemTime"} \subseteq DOMAIN hist.pre[1]["drive"].messages
  /\ hist.pre[1]["drive"].messages["imu"] # subscriber["drive"].messages["imu"]
  /\ hist.pre[1]["drive"].messages["SystemTime"] = subscriber["drive"].messages["SystemTime"]

\* C16: a periodic() call of a Scheduler in simulation mode that has loaded its
\* log removes exactly the head of the timestamp queue, whether or not the
\* tick then completes, and a tick that completes publishes for each replayed
\* Topic what the log holds at that timestamp; a call made when the queue is
\* empty raises IndexError with nothing done: no command step, no publish, no
\* Subscriber periodic, and the Scheduler as it was.
C16_TimestampsConsumedInOrder ==
  (hist.op = "periodic" /\ sched.is_sim /\ hist.pre[2].type = "list") =>
    LET queue == hist.pre[2].val
    IN IF queue = <<>>
       THEN /\ hist.raised = "IndexError"
            /\ hist.trace = <<>>
            /\ sched.time_stamps = hist.pre[2]
       ELSE /\ hist.raised # "IndexError"
            /\ sched.time_stamps = List(Tail(queue))
            /\ hist.raised = NoError =>
                 \A t \in Range(sched.topics) :
                   topic[t].replace_message_with_log =>
                     Published(hist.trace)[t][2] =
                       sched.read_topics.val[Name(t)][Head(queue)][2]

\* The second tick of a replay of a log of one record: the queue was exhausted
\* by the first.
C16_Witness ==
  /\ hist.op = "periodic"
  /\ sched.is_sim
  /\ hist.ticks = 2
  /\ hist.raised = "IndexError"
  /\ Len(files[sched.file_reading_name.val].lines) = 1

C18_MatchInstallsNextLink ==
  (/\ hist.who = "Dy" /\ hist.op = "is_complete" /\ hist.raised = NoError /\ hist.ret
   /\ \A c \in CommandIds : hist.pre[2][c] \notin {"S1", "S2"}) =>
    LET matched == hist.trace[Len(hist.trace)].who
    IN command["Dy"].next_command = command["Dy"].command_condition_pairs[matched]

\* C19: a ParallelCommand is a chain node like any other Command: setNext with
\* a Command as argument, called on a ParallelCommand or on a command whose
\* chain holds one, returns without an error.
C19_ParallelIsChainNode ==
  (/\ hist.op = "setNext"
   /\ hist.calls[Len(hist.calls)][2] \in CommandIds
   /\ hist.who = "P" \/ \E c \in CommandIds : hist.pre[1][c] = "P") =>
    hist.raised = NoError

\* C20: a DynamicCommand queried again while its predicate stays true (and
\* never given a successor by a direct setNext call): every is_complete()
\* call returns, no command is its own successor afterwards, and a call that
\* finds the matched successor already installed as the next link leaves all
\* links as they were.
C20_RepeatedQueryIsIdempotent ==
  (hist.who = "Dy" /\ hist.op = "is_complete" /\ hist.calls = <<>>) =>
    /\ hist.raised = NoError
    /\ \A c \in CommandIds : Links(command)[c] # c
    /\ hist.ret =>
         LET matched == hist.trace[Len(hist.trace)].who
         IN hist.pre[1] = command["Dy"].command_condition_pairs[matched] =>
              Links(command) = hist.pre[2]

\* C21: a fatal configuration error aborts initialize() with no partial run:
\* when initialize() raises a name-collision error or the error of simulation
\* mode without a log source, no log file has been opened or written (the
\* files and the Scheduler's log name are as before the call) and no
\* Subscriber's initialize_hardware() has been called; and when it raises the
\* strict hardware error, the Subscriber that failed is the last one whose
\* initialize_hardware() was called.
C21_NoPartialRun ==
  hist.op = "initialize" =>
    LET hardware == SelectSeq(hist.trace, LAMBDA e : e.ev = "initialize_hardware")
    IN /\ hist.raised \in CollisionErrors \cup {"Exception"} =>
            /\ files = hist.pre[1]
            /\ sched.writing_file_name = hist.pre[2]
            /\ hardware = <<>>
       /\ hist.raised = HardwareFailed =>
            /\ hardware # <<>>
            /\ ~env.hardware[hardware[Len(hardware)].who]
            /\ \A i \in 1 .. (Len(hardware) - 1) : env.hardware[hardware[i].who]

====
